---- MODULE Spec2Model ----
(***************************************************************************)
(* A model of DexTradingBot (src/bot.py): the polling loop                 *)
(* analyze_and_trade, the feed boundary _fetch_pairs, the strategy filter  *)
(* _is_valid_trade, execute_trade / _log_trade and the notifier            *)
(* send_telegram_msg.                                                      *)
(*                                                                         *)
(* Values.  A JSON field that may be missing is a record with a tag k:     *)
(*   numbers  [k |-> "absent" | "num" | "bad", v |-> Int]                  *)
(*            ("bad" is any value float() rejects: null, an object, a      *)
(*            non-numeric string)                                          *)
(*   strings  [k |-> "absent" | "str", v |-> STRING]                       *)
(* Python floats that are prices or amounts are integers in hundredths     *)
(* (1.50 is 150, 0.1 is 10).  A message text is the sequence of the pieces *)
(* the f-string concatenates.                                              *)
(***************************************************************************)
EXTENDS Integers, Sequences, FiniteSets, TLC

----------------------------------------------------------------------------
(* Bounds of the model *)

\* fetches (cycles) the loop is followed for
MaxCycles == 2

\* longest 'pairs' list a feed response carries
MaxPairs == 2

\* rows of table 'trades' the loop is followed for: a fetch is followed only
\* while its list fits, one row per listed pair, in what is left
MaxRows == 4

----------------------------------------------------------------------------
(* Program constants *)

LiquidityThreshold == 100000
VolumeThreshold == 500000
TradeAmount == 10
SuccessSleep == 300
ErrorSleep == 60

----------------------------------------------------------------------------
(* JSON values *)

Absent == [k |-> "absent", v |-> 0]
Num(n) == [k |-> "num", v |-> n]
BadNum == [k |-> "bad", v |-> 0]
NoStr == [k |-> "absent", v |-> ""]
Str(s) == [k |-> "str", v |-> s]

\* 'volume' is an object holding 'h24', 'baseToken' an object holding 'symbol'
\* (a 'volume' that is no object, k = "bad", makes .get raise AttributeError)
NoVolume == [k |-> "absent", h24 |-> Absent]
Volume(h) == [k |-> "obj", h24 |-> h]
BadVolume == [k |-> "bad", h24 |-> Absent]
NoBaseToken == [k |-> "absent", symbol |-> NoStr]
BaseToken(s) == [k |-> "obj", symbol |-> s]

Pair(sym, price, addr, liq, vol) ==
    [baseToken |-> sym, priceUsd |-> price, pairAddress |-> addr,
     liquidity |-> liq, volume |-> vol]

----------------------------------------------------------------------------
(* float() and str() *)

\* the price strings of the model and the float each parses to, in hundredths;
\* any other string makes float() raise ValueError
NumericStrings == {"1.50", "1.5", "2.25"}
FloatOfString(s) ==
    CASE s = "1.50" -> 150
      [] s = "1.5" -> 150
      [] s = "2.25" -> 225
      [] OTHER -> 0

\* float(x) of a number field: [raised, value]
FloatOfNum(x) ==
    IF x.k = "num" THEN [raised |-> FALSE, value |-> x.v]
    ELSE [raised |-> TRUE, value |-> 0]

\* f"{amount}" of a float, in hundredths
StrOfFloat(h) ==
    CASE h = 10 -> "0.1"
      [] h = 150 -> "1.5"
      [] h = 225 -> "2.25"
      [] OTHER -> "?"

----------------------------------------------------------------------------
(* _is_valid_trade: [raised, value] *)

\* a filter that lets the thresholds themselves through (>= for >)
IsValidTrade_NonStrict(pair) ==
    LET liquidity == IF pair.liquidity.k = "absent" THEN Num(0) ELSE pair.liquidity
        h24 == IF pair.volume.k = "absent" THEN Absent ELSE pair.volume.h24
        volume == IF h24.k = "absent" THEN Num(0) ELSE h24
        fl == FloatOfNum(liquidity)
        fv == FloatOfNum(volume)
    IN  IF fl.raised \/ pair.volume.k = "bad" \/ fv.raised
        THEN [raised |-> TRUE, value |-> FALSE]
        ELSE [raised |-> FALSE,
              value |-> fl.value >= LiquidityThreshold /\ fv.value >= VolumeThreshold]

IsValidTrade(pair) ==
    LET liquidity == IF pair.liquidity.k = "absent" THEN Num(0) ELSE pair.liquidity
        h24 == IF pair.volume.k = "absent" THEN Absent ELSE pair.volume.h24
        volume == IF h24.k = "absent" THEN Num(0) ELSE h24
        fl == FloatOfNum(liquidity)
        fv == FloatOfNum(volume)
    IN  IF fl.raised \/ pair.volume.k = "bad" \/ fv.raised
        THEN [raised |-> TRUE, value |-> FALSE]
        ELSE [raised |-> FALSE,
              value |-> fl.value > LiquidityThreshold /\ fv.value > VolumeThreshold]

----------------------------------------------------------------------------
(* The pairs the feed of the model reports *)

\* the pair of the specification's example: qualifies
FOO == Pair(BaseToken(Str("FOO")), Str("1.50"), Str("0xabc"),
            Num(200000), Volume(Num(600000)))
\* qualifies, just above both thresholds
BAR == Pair(BaseToken(Str("BAR")), Str("2.25"), Str("0xdef"),
            Num(100001), Volume(Num(500001)))
\* exactly on both thresholds: does not qualify
LOW == Pair(BaseToken(Str("LOW")), Str("1.5"), Str("0x111"),
            Num(100000), Volume(Num(500000)))
\* qualifies, no 'priceUsd'
NOPRICE == Pair(BaseToken(Str("NOP")), NoStr, Str("0x222"),
                Num(200000), Volume(Num(600000)))
\* qualifies, 'priceUsd' is not a number
BADPRICE == Pair(BaseToken(Str("BDP")), Str("abc"), Str("0x333"),
                 Num(200000), Volume(Num(600000)))
\* qualifies, no 'baseToken'
NOSYM == Pair(NoBaseToken, Str("1.5"), Str("0x444"),
              Num(200000), Volume(Num(600000)))
\* qualifies, no 'pairAddress'
NOADDR == Pair(BaseToken(Str("NAD")), Str("1.5"), NoStr,
               Num(200000), Volume(Num(600000)))
\* 'liquidity' is an object: float() raises in the filter
BADLIQ == Pair(BaseToken(Str("BLQ")), Str("1.5"), Str("0x555"),
               BadNum, Volume(Num(600000)))

Universe == {FOO, BAR, LOW, NOPRICE, BADPRICE, NOSYM, NOADDR, BADLIQ}

RECURSIVE ListsUpTo(_, _)
ListsUpTo(S, n) ==
    IF n = 0 THEN {<<>>}
    ELSE LET shorter == ListsUpTo(S, n - 1)
         IN  shorter \cup {Append(l, x) : l \in {m \in shorter : Len(m) = n - 1}, x \in S}

PairLists == ListsUpTo(Universe, MaxPairs)

----------------------------------------------------------------------------
(* The feed: the outcome of requests.get and what _fetch_pairs makes of it *)

\* the value of the body's 'pairs' entry
NoPairs == [k |-> "absent", v |-> <<>>]
NullPairs == [k |-> "null", v |-> <<>>]
ListPairs(l) == [k |-> "list", v |-> l]

\* exc: "" when requests.get returns, else the exception it raises;
\* body: "nonjson" (response.json() raises), "array" (a JSON value without .get)
\* or "object"
Response(exc, status, body, prs) ==
    [exc |-> exc, status |-> status, body |-> body, pairs |-> prs]

Responses ==
    {Response(e, 0, "none", NoPairs) : e \in {"Timeout", "ConnectionError"}}
    \cup {Response("", st, b, NoPairs) :
              st \in {200, 500}, b \in {"nonjson", "array"}}
    \cup {Response("", st, "object", p) :
              st \in {200, 500}, p \in {NoPairs, NullPairs}}
    \cup {Response("", 200, "object", ListPairs(l)) : l \in PairLists}
    \cup {Response("", 500, "object", ListPairs(l)) :
              l \in {m \in PairLists : Len(m) <= 1}}

\* what analyze_and_trade gets: a list, or None
PyList(l) == [k |-> "list", v |-> l]
PyNone == [k |-> "none", v |-> <<>>]

\* a feed boundary that turns a null 'pairs' entry into [] (.get('pairs') or [])
FetchPairs_NullAsEmpty(r) ==
    IF r.exc # "" \/ r.body # "object" THEN PyList(<<>>)
    ELSE IF r.pairs.k = "list" THEN PyList(r.pairs.v)
    ELSE PyList(<<>>)

\* _fetch_pairs: any exception yields []; .get('pairs', []) yields the entry when
\* the key is present (None for null) and [] when it is not; the status is not read
FetchPairs(r) ==
    IF r.exc # "" \/ r.body # "object" THEN PyList(<<>>)
    ELSE IF r.pairs.k = "absent" THEN PyList(<<>>)
    ELSE IF r.pairs.k = "null" THEN PyNone
    ELSE PyList(r.pairs.v)

----------------------------------------------------------------------------
(* State *)

VARIABLES
    pc,             \* where analyze_and_trade is: "start", "fetch", "loop",
                    \* "send_trade", "log_trade", "confirm", "except", "sleep"
    chat_id,        \* self.chat_id
    trade_chat_id,  \* self.trade_chat_id
    response,       \* the outcome of the last requests.get
    pairs,          \* the local 'pairs' of the cycle
    i,              \* position of the for loop in pairs (1-based)
    err,            \* str(e) of the exception being handled, "" when none
    sleep_secs,     \* the argument of the time.sleep in progress, 0 when none
    ledger,         \* the rows of table 'trades', in insertion order
    cycle,          \* fetches made so far
    log,            \* the relay posts and ledger inserts attempted since the last wake-up
    started,        \* "bot started" messages posted so far
    trade_posts,    \* trade commands posted so far
    ledger_at_fetch, \* Len(ledger) when the cycle's fetch was made
    failed_posts,   \* posts since the last wake-up that the relay did not accept
    trade_chat_configured, \* whether config['telegram'] has 'trade_chat_id'
    confirm_posts,  \* "Bought" confirmations posted so far
    append_failures, \* calls of _log_trade that raised so far
    probe,          \* the argument of a lone call of _is_valid_trade (FilterSpec)
    verdict         \* what that call returned or raised

vars == <<pc, chat_id, trade_chat_id, response, pairs, i, err, sleep_secs,
          ledger, cycle, log, started, trade_posts, ledger_at_fetch,
          failed_posts, trade_chat_configured, confirm_posts, append_failures,
          probe, verdict>>

StatusChat == "status_chat"
TradeChat == "trade_chat"

\* _init_telegram: config['telegram'].get('trade_chat_id', self.chat_id)
InitTradeChatId(configured) == IF configured THEN TradeChat ELSE StatusChat

NoResponse == Response("", 0, "none", NoPairs)
NoVerdict == [raised |-> FALSE, value |-> FALSE]

Init ==
    /\ pc = "start"
    /\ probe = FOO
    /\ verdict = NoVerdict
    /\ failed_posts = 0
    /\ chat_id = StatusChat
    /\ \E configured \in BOOLEAN :
          /\ trade_chat_configured = configured
          /\ trade_chat_id = InitTradeChatId(configured)
    /\ confirm_posts = 0
    /\ append_failures = 0
    /\ response = NoResponse
    /\ pairs = PyList(<<>>)
    /\ i = 1
    /\ err = ""
    /\ sleep_secs = 0
    /\ ledger = <<>>
    /\ cycle = 0
    /\ log = <<>>
    /\ started = 0
    /\ trade_posts = 0
    /\ ledger_at_fetch = 0

----------------------------------------------------------------------------
(* Notifier: send_telegram_msg *)

\* the variables no step of the loop writes
fixed == <<chat_id, trade_chat_id, trade_chat_configured, probe, verdict>>

\* a resolution with the two branches exchanged
Destination_Swapped(is_trade) == IF is_trade THEN chat_id ELSE trade_chat_id

\* line 49: the chat a message is posted to
Destination(is_trade) == IF is_trade THEN trade_chat_id ELSE chat_id

\* one requests.post of send_telegram_msg
PostEvent(text, is_trade) ==
    [op |-> "post", chat |-> Destination(is_trade), text |-> text,
     is_trade |-> is_trade]

\* one INSERT of _log_trade that succeeded
InsertEvent ==
    [op |-> "insert", chat |-> "", text |-> <<>>, is_trade |-> FALSE]

\* a notifier without its try/except: a refused post raises into the caller
SendRaises_Propagate(ok) == ~ok

\* whether send_telegram_msg raises into its caller; ok: the relay accepted the
\* post.  The try/except around requests.post and raise_for_status catches
\* every Exception.
SendRaises(ok) == FALSE

\* send_telegram_msg(text, is_trade): one post, no retry
Send(text, is_trade, ok) ==
    /\ log' = Append(log, PostEvent(text, is_trade))
    /\ failed_posts' = IF ok THEN failed_posts ELSE failed_posts + 1

StartedText == <<"Trading bot started">>
TradeCommand(action, symbol, amount) ==
    <<"/", action, " ", symbol, " ", StrOfFloat(amount)>>
BoughtText(symbol, priceUsd) == <<"Bought ", symbol, " at $", priceUsd>>
ErrorText(e) == <<"Error: ", e>>

\* an exception e leaves the try of the cycle: the except clause is entered
Raise(e) ==
    /\ pc' = "except"
    /\ err' = e

----------------------------------------------------------------------------
(* analyze_and_trade *)

\* line 92: the "bot started" message, then the loop is entered.  A raise here
\* is outside the try and would end the program (pc "crashed").
Start ==
    /\ pc = "start"
    /\ \E ok \in BOOLEAN :
        /\ Send(StartedText, FALSE, ok)
        /\ pc' = IF SendRaises(ok) THEN "crashed" ELSE "fetch"
    /\ started' = started + 1
    /\ UNCHANGED <<fixed, confirm_posts, append_failures, response, pairs, i, err, sleep_secs, ledger, cycle,
                   trade_posts, ledger_at_fetch>>

\* line 96: pairs = self._fetch_pairs()
Fetch ==
    /\ pc = "fetch"
    /\ cycle < MaxCycles
    /\ \E r \in Responses :
        /\ Len(ledger) + Len(FetchPairs(r).v) <= MaxRows
        /\ response' = r
        /\ pairs' = FetchPairs(r)
    /\ i' = 1
    /\ pc' = "loop"
    /\ cycle' = cycle + 1
    /\ ledger_at_fetch' = Len(ledger)
    /\ UNCHANGED <<fixed, confirm_posts, append_failures, err, sleep_secs, ledger, log, failed_posts, started, trade_posts>>

\* an execute_trade that reads the symbol first and parses the price only when
\* it writes the row
ParseError_SymbolOnly(pair) ==
    IF pair.baseToken.k = "absent" THEN "'baseToken'"
    ELSE IF pair.baseToken.symbol.k = "absent" THEN "'symbol'"
    ELSE ""

\* execute_trade, lines 64-65: "" when symbol and price are read, else str(e)
ParseError(pair) ==
    IF pair.baseToken.k = "absent" THEN "'baseToken'"
    ELSE IF pair.baseToken.symbol.k = "absent" THEN "'symbol'"
    ELSE IF pair.priceUsd.k = "absent" THEN "'priceUsd'"
    ELSE IF pair.priceUsd.v \notin NumericStrings
         THEN "could not convert string to float"
    ELSE ""

\* a condition that skips a pair the ledger already holds a row for
ShouldTrade_Dedup(pair) ==
    LET valid == IsValidTrade(pair)
    IN  IF valid.raised \/ ~valid.value THEN valid
        ELSE [raised |-> FALSE,
              value |-> \A j \in 1..Len(ledger) :
                           ledger[j].pair_address # pair.pairAddress.v]

\* line 98: the condition under which a pair is traded
ShouldTrade(pair) == IsValidTrade(pair)

\* a loop whose long sleep is skipped: after the last pair the next fetch follows
ForIter_NoSleep ==
    /\ pc = "loop"
    /\ IF pairs.k = "none"
       THEN /\ Raise("'NoneType' object is not iterable")
            /\ UNCHANGED <<i, sleep_secs>>
       ELSE IF i > Len(pairs.v)
       THEN /\ pc' = "fetch"
            /\ UNCHANGED <<i, err, sleep_secs>>
       ELSE LET pair == pairs.v[i]
                valid == ShouldTrade(pair)
            IN  IF valid.raised
                THEN /\ Raise("float() argument")
                     /\ UNCHANGED <<i, sleep_secs>>
                ELSE IF ~valid.value
                THEN /\ i' = i + 1
                     /\ UNCHANGED <<pc, err, sleep_secs>>
                ELSE IF ParseError(pair) # ""
                THEN /\ Raise(ParseError(pair))
                     /\ UNCHANGED <<i, sleep_secs>>
                ELSE /\ pc' = "send_trade"
                     /\ UNCHANGED <<i, err, sleep_secs>>
    /\ UNCHANGED <<fixed, confirm_posts, append_failures, response, pairs, ledger, cycle, log, failed_posts,
                   started, trade_posts, ledger_at_fetch>>

\* lines 97-99 and 64-68: one turn of the for loop up to its first blocking call
ForIter ==
    /\ pc = "loop"
    /\ IF pairs.k = "none"
       THEN /\ Raise("'NoneType' object is not iterable")
            /\ UNCHANGED <<i, sleep_secs>>
       ELSE IF i > Len(pairs.v)
       THEN /\ pc' = "sleep"
            /\ sleep_secs' = SuccessSleep
            /\ UNCHANGED <<i, err>>
       ELSE LET pair == pairs.v[i]
                valid == ShouldTrade(pair)
            IN  IF valid.raised
                THEN /\ Raise("float() argument")
                     /\ UNCHANGED <<i, sleep_secs>>
                ELSE IF ~valid.value
                THEN /\ i' = i + 1
                     /\ UNCHANGED <<pc, err, sleep_secs>>
                ELSE IF ParseError(pair) # ""
                THEN /\ Raise(ParseError(pair))
                     /\ UNCHANGED <<i, sleep_secs>>
                ELSE /\ pc' = "send_trade"
                     /\ UNCHANGED <<i, err, sleep_secs>>
    /\ UNCHANGED <<fixed, confirm_posts, append_failures, response, pairs, ledger, cycle, log, failed_posts,
                   started, trade_posts, ledger_at_fetch>>

\* an execute_trade that sends the command and does not call _log_trade
SendTrade_SkipLog ==
    /\ pc = "send_trade"
    /\ LET pair == pairs.v[i]
           text == TradeCommand("buy", pair.baseToken.symbol.v, TradeAmount)
       IN  /\ trade_posts' = trade_posts + 1
           /\ \E ok \in BOOLEAN :
               /\ Send(text, TRUE, ok)
               /\ pc' = "confirm"
               /\ UNCHANGED err
    /\ UNCHANGED <<fixed, confirm_posts, append_failures, response, pairs, i, sleep_secs, ledger, cycle, started,
                   ledger_at_fetch>>

\* execute_trade, line 71: the trade command
SendTrade ==
    /\ pc = "send_trade"
    /\ LET pair == pairs.v[i]
           text == TradeCommand("buy", pair.baseToken.symbol.v, TradeAmount)
       IN  /\ trade_posts' = trade_posts + 1
           /\ \E ok \in BOOLEAN :
               /\ Send(text, TRUE, ok)
               /\ IF SendRaises(ok)
                  THEN Raise("relay error")
                  ELSE pc' = "log_trade" /\ UNCHANGED err
    /\ UNCHANGED <<fixed, confirm_posts, append_failures, response, pairs, i, sleep_secs, ledger, cycle, started,
                   ledger_at_fetch>>

\* a row whose amount and price values are bound to each other's column
TradeRow_Swapped(pair, action, amount, price) ==
    [pair_address |-> pair.pairAddress.v, action |-> action,
     amount |-> price, price |-> amount]

\* the row _log_trade inserts
TradeRow(pair, action, amount, price) ==
    [pair_address |-> pair.pairAddress.v, action |-> action,
     amount |-> amount, price |-> price]

\* a _log_trade that swallows its failure: no row, and the loop goes on
LogTrade_Swallow ==
    /\ pc = "log_trade"
    /\ LET pair == pairs.v[i]
           price == FloatOfString(pair.priceUsd.v)
       IN  \E db_ok \in BOOLEAN :
            IF ~db_ok \/ pair.pairAddress.k = "absent"
            THEN /\ pc' = "confirm"
                 /\ UNCHANGED <<ledger, log, err, append_failures>>
            ELSE /\ ledger' = Append(ledger, TradeRow(pair, "buy", TradeAmount, price))
                 /\ log' = Append(log, InsertEvent)
                 /\ pc' = "confirm"
                 /\ UNCHANGED <<err, append_failures>>
    /\ UNCHANGED <<fixed, confirm_posts, response, pairs, i, sleep_secs, cycle, failed_posts,
                   started, trade_posts, ledger_at_fetch>>

\* the outcomes the database can give an INSERT: TRUE, connect and execute succeed
DbOutcomes == BOOLEAN

\* execute_trade, line 72: _log_trade
LogTrade ==
    /\ pc = "log_trade"
    /\ LET pair == pairs.v[i]
           price == FloatOfString(pair.priceUsd.v)
       IN  \E db_ok \in DbOutcomes :
            IF ~db_ok
            THEN /\ Raise("database error")
                 /\ append_failures' = append_failures + 1
                 /\ UNCHANGED <<ledger, log>>
            ELSE IF pair.pairAddress.k = "absent"
            THEN /\ Raise("'pairAddress'")
                 /\ append_failures' = append_failures + 1
                 /\ UNCHANGED <<ledger, log>>
            ELSE /\ ledger' = Append(ledger, TradeRow(pair, "buy", TradeAmount, price))
                 /\ log' = Append(log, InsertEvent)
                 /\ pc' = "confirm"
                 /\ UNCHANGED <<err, append_failures>>
    /\ UNCHANGED <<fixed, confirm_posts, response, pairs, i, sleep_secs, cycle, failed_posts,
                   started, trade_posts, ledger_at_fetch>>

\* lines 100-102: the confirmation, then the next turn of the loop
Confirm ==
    /\ pc = "confirm"
    /\ LET pair == pairs.v[i]
           text == BoughtText(pair.baseToken.symbol.v, pair.priceUsd.v)
       IN  \E ok \in BOOLEAN :
            /\ Send(text, FALSE, ok)
            /\ confirm_posts' = confirm_posts + 1
            /\ IF SendRaises(ok)
               THEN Raise("relay error") /\ UNCHANGED i
               ELSE pc' = "loop" /\ i' = i + 1 /\ UNCHANGED err
    /\ UNCHANGED <<fixed, append_failures, response, pairs, sleep_secs, ledger, cycle, started,
                   trade_posts, ledger_at_fetch>>

\* an except clause that sleeps the long interval
Except_LongSleep ==
    /\ pc = "except"
    /\ \E ok \in BOOLEAN :
        /\ Send(ErrorText(err), FALSE, ok)
        /\ pc' = "sleep"
    /\ sleep_secs' = SuccessSleep
    /\ err' = ""
    /\ UNCHANGED <<fixed, confirm_posts, append_failures, response, pairs, i, ledger, cycle, started, trade_posts,
                   ledger_at_fetch>>

\* an except clause inside the for loop: the failing pair is reported and the
\* loop goes on with the pair after it
Except_Continue ==
    /\ pc = "except"
    /\ \E ok \in BOOLEAN :
        /\ Send(ErrorText(err), FALSE, ok)
        /\ pc' = "loop"
    /\ i' = i + 1
    /\ err' = ""
    /\ UNCHANGED <<fixed, confirm_posts, append_failures, response, pairs, sleep_secs, ledger, cycle, started,
                   trade_posts, ledger_at_fetch>>

\* an except clause that undoes the rows the failed cycle had inserted
Except_Rollback ==
    /\ pc = "except"
    /\ \E ok \in BOOLEAN :
        /\ Send(ErrorText(err), FALSE, ok)
        /\ pc' = "sleep"
    /\ sleep_secs' = ErrorSleep
    /\ err' = ""
    /\ ledger' = SubSeq(ledger, 1, ledger_at_fetch)
    /\ UNCHANGED <<fixed, confirm_posts, append_failures, response, pairs, i, cycle, started, trade_posts,
                   ledger_at_fetch>>

\* lines 105-107: the error report, then the short sleep is entered.  A raise
\* in the handler is not caught by it and would end the program.
Except ==
    /\ pc = "except"
    /\ \E ok \in BOOLEAN :
        /\ Send(ErrorText(err), FALSE, ok)
        /\ pc' = IF SendRaises(ok) THEN "crashed" ELSE "sleep"
    /\ sleep_secs' = ErrorSleep
    /\ err' = ""
    /\ UNCHANGED <<fixed, confirm_posts, append_failures, response, pairs, i, ledger, cycle, started, trade_posts,
                   ledger_at_fetch>>

\* a loop that sends "bot started" at the top of every turn
Wake_Restart ==
    /\ pc = "sleep"
    /\ pc' = "start"
    /\ sleep_secs' = 0
    /\ response' = NoResponse
    /\ pairs' = PyList(<<>>)
    /\ i' = 1
    /\ log' = <<>>
    /\ failed_posts' = 0
    /\ UNCHANGED <<fixed, confirm_posts, append_failures, err, ledger, cycle, started, trade_posts, ledger_at_fetch>>

\* a loop that ends after a failed cycle
Wake_Exit ==
    /\ pc = "sleep"
    /\ pc' = IF sleep_secs = ErrorSleep THEN "done" ELSE "fetch"
    /\ sleep_secs' = 0
    /\ response' = NoResponse
    /\ pairs' = PyList(<<>>)
    /\ i' = 1
    /\ log' = <<>>
    /\ failed_posts' = 0
    /\ UNCHANGED <<fixed, confirm_posts, append_failures, err, ledger, cycle, started, trade_posts, ledger_at_fetch>>

\* time.sleep returns: the while loop takes its next turn.  The locals of the
\* finished turn are dead (each is assigned before it is read again), and the
\* log starts over.
Wake ==
    /\ pc = "sleep"
    /\ pc' = "fetch"
    /\ sleep_secs' = 0
    /\ response' = NoResponse
    /\ pairs' = PyList(<<>>)
    /\ i' = 1
    /\ log' = <<>>
    /\ failed_posts' = 0
    /\ UNCHANGED <<fixed, confirm_posts, append_failures, err, ledger, cycle, started, trade_posts, ledger_at_fetch>>

Next ==
    \/ Start
    \/ Fetch
    \/ ForIter
    \/ SendTrade
    \/ LogTrade
    \/ Confirm
    \/ Except
    \/ Wake

Spec == Init /\ [][Next]_vars

----------------------------------------------------------------------------
(* _is_valid_trade on its own: every combination of the field values below *)

ProbeLiquidity ==
    {Absent, BadNum} \cup
    {Num(n) : n \in {-1, 0, LiquidityThreshold - 1, LiquidityThreshold,
                     LiquidityThreshold + 1, 200000}}
ProbeVolume ==
    {NoVolume, BadVolume, Volume(Absent), Volume(BadNum)} \cup
    {Volume(Num(n)) : n \in {-1, 0, VolumeThreshold - 1, VolumeThreshold,
                             VolumeThreshold + 1, 600000}}
Probes ==
    {Pair(BaseToken(Str("FOO")), Str("1.50"), Str("0xabc"), l, v) :
        l \in ProbeLiquidity, v \in ProbeVolume}

FilterInit ==
    /\ pc = "filter"
    /\ probe \in Probes
    /\ verdict = NoVerdict
    /\ failed_posts = 0
    /\ chat_id = StatusChat
    /\ trade_chat_id = TradeChat
    /\ trade_chat_configured = TRUE
    /\ confirm_posts = 0
    /\ append_failures = 0
    /\ response = NoResponse
    /\ pairs = PyList(<<>>)
    /\ i = 1
    /\ err = ""
    /\ sleep_secs = 0
    /\ ledger = <<>>
    /\ cycle = 0
    /\ log = <<>>
    /\ started = 0
    /\ trade_posts = 0
    /\ ledger_at_fetch = 0

\* one call self._is_valid_trade(probe)
ApplyFilter ==
    /\ pc = "filter"
    /\ verdict' = IsValidTrade(probe)
    /\ pc' = "filtered"
    /\ UNCHANGED <<probe, chat_id, trade_chat_id, trade_chat_configured,
                   confirm_posts, append_failures, response, pairs, i, err,
                   sleep_secs, ledger, cycle, log, failed_posts, started, trade_posts,
                   ledger_at_fetch>>

FilterSpec == FilterInit /\ [][ApplyFilter]_vars

\* the runs with a trade chat configured
LiveInit == Init /\ trade_chat_id = TradeChat

\* the loop is one sequential thread: a step that can be taken is taken, given
\* that every blocking call and every sleep returns
LiveSpec == LiveInit /\ [][Next]_vars /\ WF_vars(Next)

----------------------------------------------------------------------------
(* Vocabulary of the properties *)

\* the number of positions of sequence s whose element is in set S
CountIn(s, S) == Cardinality({j \in 1..Len(s) : s[j] \in S})

\* a numeric field as the filter reads it: a missing field counts as 0
LiquidityOf(p) == IF p.liquidity.k = "num" THEN p.liquidity.v ELSE 0
VolumeOf(p) ==
    IF p.volume.k = "obj" /\ p.volume.h24.k = "num" THEN p.volume.h24.v ELSE 0

\* both fields are numbers or missing
WellTyped(p) ==
    /\ p.liquidity.k \in {"absent", "num"}
    /\ p.volume.k \in {"absent", "obj"}
    /\ p.volume.h24.k \in {"absent", "num"}

\* the StrategyFilter signals true / false
Signals(p) == WellTyped(p) /\ LiquidityOf(p) > 100000 /\ VolumeOf(p) > 500000
Rejects(p) == WellTyped(p) /\ (LiquidityOf(p) <= 100000 \/ VolumeOf(p) <= 500000)

\* the events of the log by kind
TradePosts == {e \in {log[j] : j \in 1..Len(log)} : e.op = "post" /\ e.is_trade}
ErrorPosts ==
    {e \in {log[j] : j \in 1..Len(log)} :
        e.op = "post" /\ ~e.is_trade /\ e.text[1] = "Error: "}
BoughtPosts ==
    {e \in {log[j] : j \in 1..Len(log)} :
        e.op = "post" /\ ~e.is_trade /\ e.text[1] = "Bought "}
Inserts == {e \in {log[j] : j \in 1..Len(log)} : e.op = "insert"}

\* the rows inserted since the cycle's fetch
CycleRows == SubSeq(ledger, ledger_at_fetch + 1, Len(ledger))

\* the coordinator is in a cycle (a fetch was made and its sleep has not returned)
InCycle == pc \in {"loop", "send_trade", "log_trade", "confirm", "except", "sleep"}
Sleeping == pc = "sleep"

----------------------------------------------------------------------------
(* Properties *)

\* C1: an exception that leaves the body of a cycle (a failed Ledger append, a
\* missing or unparseable priceUsd, an error in the filter) is followed by
\* exactly one error message on the status channel, then a sleep of 60 and not
\* 300 seconds, then a new cycle with a fresh fetch.
C1_ErrorPath ==
    [][ /\ (pc = "log_trade" /\ ledger' = ledger) => pc' = "except"
        /\ (pc = "loop" /\ pairs.k = "list" /\ i <= Len(pairs.v)
              /\ ~WellTyped(pairs.v[i])) => pc' = "except"
        /\ (pc = "loop" /\ pairs.k = "list" /\ i <= Len(pairs.v)
              /\ Signals(pairs.v[i])
              /\ (\/ pairs.v[i].priceUsd.k = "absent"
                  \/ pairs.v[i].priceUsd.v \notin {"1.50", "1.5", "2.25"}))
           => pc' = "except"
        /\ pc' = "except" => (err' # "" /\ CountIn(log', ErrorPosts') = 0)
        /\ pc = "except" =>
              /\ pc' = "sleep"
              /\ sleep_secs' = 60
              /\ log' = Append(log, [op |-> "post", chat |-> chat_id,
                                     text |-> <<"Error: ", err>>,
                                     is_trade |-> FALSE])
              /\ CountIn(log', ErrorPosts') = 1
        /\ (pc = "sleep" /\ sleep_secs = 60) =>
              (pc' = "fetch" /\ cycle' = cycle /\ ledger' = ledger)
        /\ pc = "fetch" =>
              /\ pc' = "loop"
              /\ cycle' = cycle + 1
              /\ response' \in Responses
              /\ i' = 1
      ]_vars

\* C1 witness: a cycle failed in the Ledger append (a trade command without a
\* row), slept, and the next cycle has made its fetch
C1_Witness ==
    /\ pc = "loop"
    /\ cycle = 2
    /\ trade_posts = 1
    /\ ledger = <<>>

\* C2 as stated: whenever the coordinator is between two pairs or Sleeping, as
\* many trade commands were sent as TradeRecords appended, pair by pair.
C2_Original ==
    (pc = "loop" \/ Sleeping) =>
        /\ trade_posts = Len(ledger)
        /\ \A p \in Universe :
              (p.baseToken.symbol.k = "str") =>
                  CountIn(log, {e \in TradePosts : e.text[4] = p.baseToken.symbol.v})
                  = CountIn(CycleRows, {r \in {ledger[j] : j \in 1..Len(ledger)} :
                                             p.pairAddress.k = "str"
                                             /\ r.pair_address = p.pairAddress.v})

\* the trade commands of the cycle for pair p minus the rows of the cycle for p
Unlogged(p) ==
    CountIn(log, {e \in TradePosts : e.text[4] = p.baseToken.symbol.v})
    - CountIn(CycleRows, {r \in {ledger[j] : j \in 1..Len(ledger)} :
                               p.pairAddress.k = "str"
                               /\ r.pair_address = p.pairAddress.v})

NamedPairs == {p \in Universe : p.baseToken.symbol.k = "str"}

\* C2 amended: between two pairs, and Sleeping after a cycle without error, the
\* trade commands attempted in the cycle equal the rows appended in it, pair by
\* pair; Sleeping after an error, at most one pair has one command more than
\* rows; over all cycles the commands attempted are at least the rows and at
\* most the rows plus one per cycle.
C2_Amended ==
    /\ Len(ledger) <= trade_posts
    /\ trade_posts <= Len(ledger) + cycle
    /\ (pc = "loop" \/ (Sleeping /\ sleep_secs = 300)) =>
          \A p \in NamedPairs : Unlogged(p) = 0
    /\ (Sleeping /\ sleep_secs = 60) =>
          /\ \A p \in NamedPairs : Unlogged(p) \in {0, 1}
          /\ Cardinality({p \in NamedPairs : Unlogged(p) = 1}) <= 1

\* C2 witness: Sleeping after a cycle that traded two different pairs, after an
\* earlier cycle lost a row
C2_Witness ==
    /\ Sleeping
    /\ sleep_secs = 300
    /\ Len(CycleRows) = 2
    /\ CycleRows[1].pair_address # CycleRows[2].pair_address
    /\ trade_posts = Len(ledger) + 1

\* what a pair that is traded without failure leaves in the log
EventsFor(p) ==
    << [op |-> "post", chat |-> trade_chat_id,
        text |-> <<"/", "buy", " ", p.baseToken.symbol.v, " ", "0.1">>,
        is_trade |-> TRUE],
       [op |-> "insert", chat |-> "", text |-> <<>>, is_trade |-> FALSE],
       [op |-> "post", chat |-> chat_id,
        text |-> <<"Bought ", p.baseToken.symbol.v, " at $", p.priceUsd.v>>,
        is_trade |-> FALSE] >>

RECURSIVE ExpectedEvents(_)
ExpectedEvents(l) ==
    IF l = <<>> THEN <<>>
    ELSE (IF Signals(Head(l)) THEN EventsFor(Head(l)) ELSE <<>>)
         \o ExpectedEvents(Tail(l))

\* the log without the "bot started" message and the error report
IsCycleEvent(e) ==
    ~(e.op = "post" /\ ~e.is_trade /\ e.text[1] \in {"Trading bot started", "Error: "})
CycleEvents == SelectSeq(log, IsCycleEvent)

\* C3: for the pairs the filter signals true, in feed order, the cycle sends the
\* command "/buy <symbol> 0.1" on the trade channel, then appends the record
\* (pairAddress, buy, 0.1, price), then sends the confirmation with symbol and
\* price on the status channel, each pair's three steps together and each step
\* only after the one before it; a cycle that ends without error has done so
\* for every such pair.
C3_TradeSteps ==
    (InCycle /\ pairs.k = "list") =>
        LET ev == CycleEvents
            exp == ExpectedEvents(pairs.v)
            sig == SelectSeq(pairs.v, Signals)
        IN  /\ Len(ev) <= Len(exp)
            /\ ev = SubSeq(exp, 1, Len(ev))
            /\ (Sleeping /\ sleep_secs = 300) => ev = exp
            /\ Len(CycleRows) = CountIn(log, Inserts)
            /\ \A k \in 1..Len(CycleRows) :
                  /\ CycleRows[k].pair_address = sig[k].pairAddress.v
                  /\ CycleRows[k].action = "buy"
                  /\ CycleRows[k].amount = 10
                  /\ sig[k].priceUsd.v = "1.50" => CycleRows[k].price = 150

\* C3 witness: the example pair FOO followed by BAR, both traded
C3_Witness ==
    /\ Sleeping
    /\ sleep_secs = 300
    /\ trade_chat_id = "trade_chat"
    /\ pairs.v = <<FOO, BAR>>
    /\ CycleEvents =
         << [op |-> "post", chat |-> "trade_chat",
             text |-> <<"/", "buy", " ", "FOO", " ", "0.1">>, is_trade |-> TRUE],
            [op |-> "insert", chat |-> "", text |-> <<>>, is_trade |-> FALSE],
            [op |-> "post", chat |-> "status_chat",
             text |-> <<"Bought ", "FOO", " at $", "1.50">>, is_trade |-> FALSE],
            [op |-> "post", chat |-> "trade_chat",
             text |-> <<"/", "buy", " ", "BAR", " ", "0.1">>, is_trade |-> TRUE],
            [op |-> "insert", chat |-> "", text |-> <<>>, is_trade |-> FALSE],
            [op |-> "post", chat |-> "status_chat",
             text |-> <<"Bought ", "BAR", " at $", "2.25">>, is_trade |-> FALSE] >>
    /\ CycleRows =
         << [pair_address |-> "0xabc", action |-> "buy", amount |-> 10, price |-> 150],
            [pair_address |-> "0xdef", action |-> "buy", amount |-> 10, price |-> 225] >>

\* the feed outcomes C4 lists: timeout, network error, non-2xx response,
\* malformed body, body whose 'pairs' entry is absent or null
FeedFailed(r) ==
    \/ r.exc # ""
    \/ r.status # 200
    \/ r.body # "object"
    \/ r.pairs.k \in {"absent", "null"}

\* C4 as stated: after any of these feed outcomes _fetch_pairs has returned an
\* empty sequence and the cycle is a 'no pairs' cycle: no trade command, no
\* Ledger append, no error message, a sleep of 300 seconds.
C4_FeedFailureIsEmptyCycle ==
    (InCycle /\ FeedFailed(response)) =>
        /\ pairs = [k |-> "list", v |-> <<>>]
        /\ pc \in {"loop", "sleep"}
        /\ Sleeping => sleep_secs = 300
        /\ TradePosts = {}
        /\ Inserts = {}
        /\ ErrorPosts = {}
        /\ Len(ledger) = ledger_at_fetch

\* C5: in a cycle whose feed returns no pair, or only pairs the filter returns
\* false for, there is no trade command, no Ledger append and no status
\* message, and the cycle ends in the sleep of 300 seconds.
C5_NothingToTrade ==
    (InCycle /\ pairs.k = "list"
       /\ \A j \in 1..Len(pairs.v) : Rejects(pairs.v[j])) =>
        /\ TradePosts = {}
        /\ Inserts = {}
        /\ BoughtPosts = {}
        /\ ErrorPosts = {}
        /\ CycleEvents = <<>>
        /\ Len(ledger) = ledger_at_fetch
        /\ err = ""
        /\ pc \in {"loop", "sleep"}
        /\ Sleeping => sleep_secs = 300

\* C5 witness: Sleeping after a second cycle whose feed returned two pairs on the
\* thresholds
C5_Witness ==
    /\ Sleeping
    /\ sleep_secs = 300
    /\ cycle = 2
    /\ response.pairs.k = "list"
    /\ pairs.v = <<LOW, LOW>>
    /\ i = 3

\* the rows a cycle without error appends: one per pair the filter signals true
SignalCount == Len(SelectSeq(pairs.v, Signals))

\* C6: a post the relay does not accept is not retried and raises nothing: the
\* step that made it goes where it goes after an accepted post (the trade
\* command on to the Ledger append, the confirmation on to the next pair, the
\* error report on to the 60 second sleep, "bot started" on to the first
\* fetch), and a cycle that reaches the 300 second sleep has appended a row for
\* every qualifying pair whatever posts failed.
C6_NotifierFailureSwallowed ==
    [][ /\ failed_posts' > failed_posts =>
              /\ failed_posts' = failed_posts + 1
              /\ Len(log') = Len(log) + 1
              /\ ledger' = ledger
              /\ pc = "start" => pc' = "fetch"
              /\ pc = "send_trade" => (pc' = "log_trade" /\ i' = i)
              /\ pc = "confirm" => (pc' = "loop" /\ i' = i + 1)
              /\ pc = "except" => (pc' = "sleep" /\ sleep_secs' = 60)
              /\ pc \in {"start", "send_trade", "confirm", "except"}
        /\ (pc' = "sleep" /\ sleep_secs' = 300) =>
              Len(ledger') - ledger_at_fetch' = SignalCount'
      ]_vars

\* C6 witness: every post of a cycle over two qualifying pairs failed, both rows
\* were appended and the sleep is the 300 second one
C6_Witness ==
    /\ Sleeping
    /\ sleep_secs = 300
    /\ cycle = 2
    /\ failed_posts = 4
    /\ Len(log) = 6
    /\ Len(CycleRows) = 2

\* C7: _is_valid_trade returns true exactly when liquidity > 100000 and 24h
\* volume > 500000, a missing field counting as 0, so it returns false on the
\* thresholds themselves; the call changes nothing but its result.
C7_FilterThresholds ==
    (pc = "filtered" /\ WellTyped(probe)) =>
        /\ ~verdict.raised
        /\ verdict.value <=> (LiquidityOf(probe) > 100000 /\ VolumeOf(probe) > 500000)
        /\ (LiquidityOf(probe) <= 100000 \/ VolumeOf(probe) <= 500000) => ~verdict.value
        /\ ledger = <<>> /\ log = <<>> /\ trade_posts = 0 /\ failed_posts = 0
        /\ started = 0 /\ cycle = 0 /\ err = "" /\ sleep_secs = 0
        /\ pairs = [k |-> "list", v |-> <<>>]

\* C7 witness: liquidity exactly 100000 with volume above its threshold is
\* turned down
C7_Witness ==
    /\ pc = "filtered"
    /\ probe.liquidity = [k |-> "num", v |-> 100000]
    /\ probe.volume.h24 = [k |-> "num", v |-> 600000]
    /\ ~verdict.raised
    /\ ~verdict.value

\* C8: there is no dedup state: a cycle that ends without error has sent a
\* trade command and appended a row for every occurrence of every qualifying
\* pair in its feed, whatever rows the ledger held for that pair before.
C8_NoDedup ==
    (Sleeping /\ sleep_secs = 300 /\ pairs.k = "list") =>
        \A p \in {pairs.v[j] : j \in 1..Len(pairs.v)} :
            Signals(p) =>
                /\ CountIn(CycleRows, {r \in {ledger[j] : j \in 1..Len(ledger)} :
                                          r.pair_address = p.pairAddress.v})
                   = CountIn(pairs.v, {p})
                /\ CountIn(log, {e \in TradePosts : e.text[4] = p.baseToken.symbol.v})
                   = CountIn(pairs.v, {p})

\* C8 witness: FOO was traded in the first cycle and again in the second: two
\* commands, two rows
C8_Witness ==
    /\ Sleeping
    /\ sleep_secs = 300
    /\ cycle = 2
    /\ pairs.v = <<FOO>>
    /\ ledger_at_fetch = 1
    /\ trade_posts = 2
    /\ Len(ledger) = 2
    /\ ledger[1] = ledger[2]
    /\ ledger[1].pair_address = "0xabc"

\* C9: "bot started" is sent exactly once, before the first fetch, and never
\* again, whatever cycles follow.
C9_StartedOnce ==
    /\ pc = "start" => (started = 0 /\ cycle = 0 /\ log = <<>>)
    /\ pc # "start" => started = 1
    /\ \A j \in 1..Len(log) :
          log[j].text = <<"Trading bot started">> =>
              (j = 1 /\ cycle <= 1 /\ log[j].chat = chat_id)

\* C9 witness: a second cycle entered through the 60 second backoff, with
\* nothing posted at its start
C9_Witness ==
    /\ pc = "loop"
    /\ cycle = 2
    /\ log = <<>>
    /\ started = 1
    /\ trade_posts > Len(ledger)

\* C10: the loop has no terminal state: the coordinator is always at one of
\* the steps of the loop, and, every blocking call and sleep returning, it
\* comes back to the fetch at the top of the loop again and again, whatever
\* failed in between.
C10_LoopNeverEnds ==
    /\ [](pc \in {"start", "fetch", "loop", "send_trade", "log_trade",
                  "confirm", "except", "sleep"})
    /\ []<>(pc = "fetch")

\* C10 witness: a feed timeout in the cycle after one that failed in the
\* Ledger append, and the loop is still turning
C10_Witness ==
    /\ pc = "loop"
    /\ cycle = 2
    /\ response.exc = "Timeout"
    /\ trade_posts = Len(ledger) + 1

\* ------------------------------------------------------------------------
\* C11: the ledger is append-only.  Every step leaves the sequence of rows as
\* it was or puts exactly one row at its end; the only step that adds a row is
\* a call of _log_trade that returns, and such a call adds exactly one; the
\* error path leaves the rows of the failed cycle, and all earlier rows, in
\* place.
IsPrefix(s, t) == Len(s) <= Len(t) /\ SubSeq(t, 1, Len(s)) = s

LogTradeReturns == pc = "log_trade" /\ pc' = "confirm"

C11_LedgerAppendOnly ==
    [][ /\ \/ ledger' = ledger
           \/ Len(ledger') = Len(ledger) + 1 /\ IsPrefix(ledger, ledger')
        /\ LogTradeReturns <=> Len(ledger') = Len(ledger) + 1
        /\ pc \in {"except", "sleep"} => ledger' = ledger ]_vars

\* a cycle that inserted a row, then failed on a later pair, is asleep for the
\* short interval and the row is still there, after a row of an earlier cycle
C11_Witness ==
    /\ Sleeping
    /\ sleep_secs = ErrorSleep
    /\ ledger_at_fetch = 1
    /\ Len(CycleRows) = 1
    /\ Len(ledger) = 2

\* ------------------------------------------------------------------------
\* C12: cycles are strictly sequential and each ends in exactly one sleep.  A
\* fetch other than the first is entered only from a sleep, and a sleep is left
\* only to a fetch, so between two consecutive fetches there is exactly one
\* sleep.  The sleep lasts 300 seconds when it is entered from the end of the
\* pair list (no error escaped, whether or not the cycle traded) and 60 seconds
\* when it is entered from the error report.  A trade command is only sent,
\* and a row only appended, for the pair under the cursor of the latest
\* fetch; the fetch itself sends no command and appends no row.
EntersSleep == pc # "sleep" /\ pc' = "sleep"

C12_OneSleepPerCycle ==
    [][ /\ pc' = "fetch" => pc \in {"start", "sleep", "fetch"}
        /\ pc = "sleep" => /\ pc' = "fetch"
                           /\ sleep_secs \in {60, 300}
                           /\ sleep_secs = 300 <=> ErrorPosts = {}
        /\ EntersSleep =>
             \/ /\ pc = "loop"
                /\ i > Len(pairs.v)
                /\ ErrorPosts' = {}
                /\ sleep_secs' = 300
             \/ /\ pc = "except"
                /\ ErrorPosts' # {}
                /\ sleep_secs' = 60
        /\ pc = "fetch" => /\ pc' = "loop"
                           /\ cycle' = cycle + 1
                           /\ trade_posts' = trade_posts
                           /\ ledger' = ledger
                           /\ TradePosts' = {}
        /\ trade_posts' # trade_posts =>
             /\ pc = "send_trade"
             /\ cycle' = cycle /\ pairs' = pairs /\ i' = i
             /\ log' = Append(log, EventsFor(pairs.v[i])[1])
        /\ ledger' # ledger =>
             /\ pc = "log_trade"
             /\ cycle' = cycle /\ pairs' = pairs /\ i' = i
             /\ ledger'[Len(ledger')].pair_address = pairs.v[i].pairAddress.v ]_vars

\* the second cycle traded and sleeps 300 seconds; the first one sent a command,
\* failed in the Ledger append and slept 60 seconds
C12_Witness ==
    /\ Sleeping
    /\ cycle = 2
    /\ sleep_secs = 300
    /\ trade_posts = 2
    /\ ledger_at_fetch = 0
    /\ Len(ledger) = 1

\* ------------------------------------------------------------------------
\* C13: every row of the ledger has action 'buy' and amount 0.1, and carries
\* the address and the feed price of a pair the filter passed in the cycle
\* that appended it; every trade command is "/buy <symbol> 0.1" for such a
\* pair.  Within a cycle the rows (and the commands) are those of the pairs
\* the filter passed, in feed order, up to the cursor.
FeedPrice(p) ==
    CASE p.priceUsd.v = "1.50" -> 150
      [] p.priceUsd.v = "1.5" -> 150
      [] p.priceUsd.v = "2.25" -> 225

RecordOf(p) ==
    [pair_address |-> p.pairAddress.v, action |-> "buy", amount |-> 10,
     price |-> FeedPrice(p)]

CommandOf(p) == <<"/", "buy", " ", p.baseToken.symbol.v, " ", "0.1">>

\* the pairs of this cycle's fetch the filter passed, up to the cursor
PassedSoFar ==
    SelectSeq(SubSeq(pairs.v, 1, IF i <= Len(pairs.v) THEN i ELSE Len(pairs.v)),
              Signals)

TradeTexts == LET posts == SelectSeq(log, LAMBDA e : e.op = "post" /\ e.is_trade)
              IN  [j \in 1..Len(posts) |-> posts[j].text]

C13_RecordsAreFilteredBuys ==
    /\ \A j \in 1..Len(ledger) :
          /\ ledger[j].action = "buy"
          /\ ledger[j].amount = 10
          /\ \E p \in Universe : Signals(p) /\ ledger[j] = RecordOf(p)
    /\ InCycle /\ pairs.k = "list" =>
          /\ Len(TradeTexts) <= Len(PassedSoFar)
          /\ \A j \in 1..Len(TradeTexts) : TradeTexts[j] = CommandOf(PassedSoFar[j])
          /\ Len(CycleRows) <= Len(TradeTexts)
          /\ \A j \in 1..Len(CycleRows) : CycleRows[j] = RecordOf(PassedSoFar[j])

\* the feed listed a pair the filter rejects and then BAR at "2.25": the cycle
\* has sent "/buy BAR 0.1" and appended the row (0xdef, buy, 0.1, 2.25)
C13_Witness ==
    /\ pc = "confirm"
    /\ pairs = PyList(<<LOW, BAR>>)
    /\ i = 2
    /\ TradeTexts = << <<"/", "buy", " ", "BAR", " ", "0.1">> >>
    /\ CycleRows = << [pair_address |-> "0xdef", action |-> "buy",
                       amount |-> 10, price |-> 225] >>

\* ------------------------------------------------------------------------
\* C14: a message sent with is_trade goes to the trade chat id the
\* configuration names, or to the status chat id when it names none; a message
\* sent without is_trade goes to the status chat id.  The messages sent with
\* is_trade are exactly the trade commands: "bot started", the confirmations
\* and the error reports go to the status chat, never to a distinct trade chat.
Posts == {e \in {log[j] : j \in 1..Len(log)} : e.op = "post"}

IsCommandText(t) == Len(t) = 6 /\ t[1] = "/"
IsStatusText(t) == t[1] \in {"Trading bot started", "Bought ", "Error: "}

C14_Destinations ==
    \A e \in Posts :
        /\ e.is_trade =>
              /\ e.chat = IF trade_chat_configured THEN "trade_chat" ELSE "status_chat"
              /\ IsCommandText(e.text)
        /\ ~e.is_trade =>
              /\ e.chat = "status_chat"
              /\ IsStatusText(e.text)
        /\ IsCommandText(e.text) => e.is_trade

\* no trade chat is configured: a trade command, its confirmation and "bot
\* started" have all been posted to the status chat
C14_Witness ==
    /\ ~trade_chat_configured
    /\ \E e \in TradePosts : e.chat = "status_chat"
    /\ \E e \in BoughtPosts : e.chat = "status_chat"
    /\ \E e \in Posts : e.text = <<"Trading bot started">> /\ e.chat = "status_chat"

\* ------------------------------------------------------------------------
\* C15: an error on the k-th pair of a fetch ends the cycle there.  From the
\* raise to the end of the short sleep the cursor stays on pair k; the events
\* of the cycle are the complete steps of the pairs before k that the filter
\* passed, followed by at most the command of pair k; the rows of the cycle
\* are those of the pairs before k; nothing exists for a pair after k, and the
\* error report is the last thing the cycle sends.  The steps from the raise
\* to the next fetch leave the ledger as it is, and the next fetch puts the
\* cursor back on the first pair of what it returns.
Aborted == pc = "except" \/ (Sleeping /\ sleep_secs = 60)

Before(k) == SubSeq(pairs.v, 1, k - 1)

C15_AbortedInv ==
    Aborted /\ pairs.k = "list" =>
        /\ i \in 1..Len(pairs.v)
        /\ \/ CycleEvents = ExpectedEvents(Before(i))
           \/ CycleEvents = Append(ExpectedEvents(Before(i)), EventsFor(pairs.v[i])[1])
        /\ Len(CycleRows) = Len(SelectSeq(Before(i), Signals))
        /\ \A j \in 1..Len(CycleRows) :
              CycleRows[j] = RecordOf(SelectSeq(Before(i), Signals)[j])
        /\ Cardinality(ErrorPosts) <= 1
        /\ Sleeping => log[Len(log)] \in ErrorPosts

C15_AbortedStep ==
    /\ pc = "except" =>
          /\ pc' = "sleep" /\ sleep_secs' = 60
          /\ i' = i /\ pairs' = pairs /\ ledger' = ledger
          /\ CycleEvents' = CycleEvents
    /\ Sleeping /\ sleep_secs = 60 => pc' = "fetch" /\ ledger' = ledger
    /\ pc = "fetch" => i' = 1 /\ pairs' = FetchPairs(response') /\ ledger' = ledger

C15_ErrorAbortsCycle == [](C15_AbortedInv) /\ [][C15_AbortedStep]_vars

\* the second fetch listed a pair whose price cannot be parsed and then FOO:
\* the cycle sleeps 60 seconds with the cursor on the first pair and nothing
\* sent or appended for FOO, while the row of the first cycle is still there
C15_Witness ==
    /\ Sleeping
    /\ sleep_secs = 60
    /\ cycle = 2
    /\ pairs = PyList(<<BADPRICE, FOO>>)
    /\ i = 1
    /\ CycleEvents = <<>>
    /\ Len(ledger) = 1
    /\ ledger_at_fetch = 1

\* ------------------------------------------------------------------------
\* C16: execute_trade reads the symbol and parses the price before it sends
\* anything.  For a pair the filter passes whose baseToken.symbol is missing,
\* or whose priceUsd is missing or not a number, the turn of the loop raises
\* with nothing sent and nothing appended; the pair never reaches the send,
\* the append or the confirmation; and the cycle ends in the error report and
\* the 60 second sleep with no command and no row for that pair.
NoSymbol(p) == p.baseToken.k = "absent" \/ p.baseToken.symbol.k = "absent"
NoPrice(p) == p.priceUsd.k = "absent" \/ p.priceUsd.v \notin {"1.50", "1.5", "2.25"}
Unreadable(p) == Signals(p) /\ (NoSymbol(p) \/ NoPrice(p))

AtPair == InCycle /\ pairs.k = "list" /\ i \in 1..Len(pairs.v)

C16_UnreadableInv ==
    AtPair /\ Unreadable(pairs.v[i]) =>
        /\ pc \in {"loop", "except", "sleep"}
        /\ CycleEvents = ExpectedEvents(Before(i))
        /\ Len(CycleRows) = Len(SelectSeq(Before(i), Signals))
        /\ pc = "except" => err # "" /\ ErrorPosts = {}
        /\ Sleeping => sleep_secs = 60 /\ Cardinality(ErrorPosts) = 1

C16_UnreadableStep ==
    pc = "loop" /\ AtPair /\ Unreadable(pairs.v[i]) =>
        /\ pc' = "except"
        /\ err' # ""
        /\ i' = i
        /\ log' = log
        /\ ledger' = ledger
        /\ trade_posts' = trade_posts

C16_ParsedBeforeSend == [](C16_UnreadableInv) /\ [][C16_UnreadableStep]_vars

\* FOO was traded, then a passing pair without baseToken was met: the cycle
\* sleeps 60 seconds after the report, with FOO's three steps and nothing else
C16_Witness ==
    /\ Sleeping
    /\ sleep_secs = 60
    /\ pairs = PyList(<<FOO, NOSYM>>)
    /\ i = 2
    /\ CycleEvents = EventsFor(FOO)
    /\ Len(CycleRows) = 1
    /\ \E e \in ErrorPosts : e.text = <<"Error: ", "'baseToken'">>

\* ------------------------------------------------------------------------
\* C17: in every reachable state the confirmations posted are at most the rows
\* of the ledger, and the rows are at most the trade commands posted.  While
\* the coordinator sleeps, the commands exceed the rows by exactly the number
\* of cycles that failed in _log_trade (at most one failure per cycle), and
\* every row has had its confirmation posted.
C17_Counting ==
    /\ confirm_posts <= Len(ledger)
    /\ Len(ledger) <= trade_posts
    /\ append_failures <= cycle
    /\ Sleeping =>
          /\ trade_posts - Len(ledger) = append_failures
          /\ Len(ledger) - confirm_posts = 0

\* asleep in the second cycle: one cycle failed in _log_trade, the other
\* appended a row, two commands were posted, one row and one confirmation exist
C17_Witness ==
    /\ Sleeping
    /\ cycle = 2
    /\ append_failures = 1
    /\ trade_posts = 2
    /\ Len(ledger) = 1
    /\ confirm_posts = 1

====
